---- MODULE Spec2Model ----
(***************************************************************************)
(* The orchestration loop of the P2P node (src/src/p2p_node.rs) and its    *)
(* start-up in main (src/src/main.rs).                                     *)
(*                                                                         *)
(* The swarm, the routing table (kademlia), gossipsub and the two tokio    *)
(* interval timers are collaborators: the model keeps the part of their    *)
(* state the loop reads (connected peers, routing-table addresses, ticks   *)
(* that are due, events waiting to be returned by swarm.next()) and the    *)
(* list of commands each handler issues to them.                           *)
(***************************************************************************)
EXTENDS Integers, Sequences, FiniteSets, TLC

(***************************************************************************)
(* Bounds of the model.                                                    *)
(***************************************************************************)
\* network events that are counted in one run: the runs of Spec end their
\* traffic there, the runs of FairSpec go on
MaxEvents == 2
\* network events that may wait for swarm.next() at once
MaxWaiting == 2
\* ticks of one interval timer that may be due at once
MaxDue == 2
\* ticks of bootstrap_interval that are counted in one run: in the runs of
\* Spec no more come due, in the runs of FairSpec the timer goes on
MaxBootTicks == 2
\* the latest second after the Unix epoch the wall clock reads
MaxClock == 1

(***************************************************************************)
(* Program constants.                                                      *)
(***************************************************************************)
HANDSHAKE_TOPIC == "node-eeb-handshakes"

\* the three well-known bootstrap multiaddresses
BOOTSTRAP_NODES ==
    << "/dnsaddr/bootstrap.libp2p.io/p2p/QmNnoo",
       "/dnsaddr/bootstrap.libp2p.io/p2p/QmQCU2",
       "/dnsaddr/bootstrap.libp2p.io/p2p/QmbLHA" >>

(***************************************************************************)
(* Values.                                                                 *)
(***************************************************************************)
\* Option<T>: None is the empty sequence, Some(x) the one-element sequence
None == << >>
Some(x) == << x >>

\* the identity generated by Keypair::generate_ed25519 in P2PNode::new
LocalPeerIds == {"self"}
\* remote peers and the addresses the discovery mechanisms report for them
Peers == {"p1", "p2"}
Addrs == {"/ip4/10.0.0.1/tcp/4001", "/ip4/10.0.0.2/tcp/4001"}
NoPeerId == "-"

Range(s) == {s[i] : i \in 1..Len(s)}
Last(s) == s[Len(s)]

(***************************************************************************)
(* Text.  A text is a TLA+ string; the operators below read it character   *)
(* by character.                                                           *)
(***************************************************************************)
CharAt(s, i) == SubSeq(s, i, i)
From(s, i) == SubSeq(s, i, Len(s))
StartsWith(s, prefix) == Len(s) >= Len(prefix) /\ SubSeq(s, 1, Len(prefix)) = prefix

\* str::split(sep): the parts of `s` between the occurrences of `sep`
RECURSIVE SplitFrom(_, _, _, _)
SplitFrom(s, sep, start, i) ==
    IF i > Len(s) THEN << SubSeq(s, start, Len(s)) >>
    ELSE IF CharAt(s, i) = sep
         THEN << SubSeq(s, start, i - 1) >> \o SplitFrom(s, sep, i + 1, i + 1)
         ELSE SplitFrom(s, sep, start, i + 1)

Split(s, sep) == SplitFrom(s, sep, 1, 1)

\* the place of the first `sep` in `s`, 0 when there is none
RECURSIVE IndexFrom(_, _, _)
IndexFrom(s, sep, i) ==
    IF i > Len(s) THEN 0
    ELSE IF CharAt(s, i) = sep THEN i ELSE IndexFrom(s, sep, i + 1)

IndexOf(s, sep) == IndexFrom(s, sep, 1)

Digit(c) ==
    CASE c = "0" -> 0 [] c = "1" -> 1 [] c = "2" -> 2 [] c = "3" -> 3 [] c = "4" -> 4
      [] c = "5" -> 5 [] c = "6" -> 6 [] c = "7" -> 7 [] c = "8" -> 8 [] c = "9" -> 9
      [] OTHER -> -1

\* the number written by the decimal digits s[i..], -1 when a character is
\* no digit; a number above `max` is given as max + 1
RECURSIVE DecimalFrom(_, _, _, _)
DecimalFrom(s, i, acc, max) ==
    IF i > Len(s) THEN acc
    ELSE IF Digit(CharAt(s, i)) < 0 THEN -1
         ELSE DecimalFrom(s, i + 1,
                          IF acc * 10 + Digit(CharAt(s, i)) > max THEN max + 1
                          ELSE acc * 10 + Digit(CharAt(s, i)),
                          max)

Decimal(s, max) == IF s = "" THEN -1 ELSE DecimalFrom(s, 1, 0, max)

\* str::parse::<u16>(): decimal digits after an optional "+", at most 65535
ParsesU16(s) ==
    LET digits == IF StartsWith(s, "+") THEN From(s, 2) ELSE s IN
    Decimal(digits, 65535) \in 0..65535

\* a value given to clap's parser for u16 (Args::port): the text is read as
\* an i64, a sign and decimal digits, and the number must lie in 0..65535;
\* -1 when the text is refused
ClapU16(s) ==
    LET signed == StartsWith(s, "+") \/ StartsWith(s, "-")
        n == Decimal(IF signed THEN From(s, 2) ELSE s, 65535) IN
    IF n \in 0..65535 /\ (StartsWith(s, "-") => n = 0) THEN n ELSE -1

\* str::parse::<Ipv4Addr>(): four decimal numbers up to 255 between dots,
\* each of one to three digits with no leading zero
ParsesIpv4(s) ==
    LET octets == Split(s, ".") IN
    /\ Len(octets) = 4
    /\ \A i \in 1..4 :
         /\ Len(octets[i]) \in 1..3
         /\ Decimal(octets[i], 255) \in 0..255
         /\ Len(octets[i]) > 1 => CharAt(octets[i], 1) # "0"

HexDigits ==
    { "0", "1", "2", "3", "4", "5", "6", "7", "8", "9",
      "a", "b", "c", "d", "e", "f", "A", "B", "C", "D", "E", "F" }

\* one group of an IPv6 address: one to four hexadecimal digits
HexGroup(s) ==
    /\ Len(s) \in 1..4
    /\ \A i \in 1..Len(s) : CharAt(s, i) \in HexDigits

\* the place of the first "::" in `s`, 0 when there is none
RECURSIVE DoubleColonFrom(_, _)
DoubleColonFrom(s, i) ==
    IF i + 1 > Len(s) THEN 0
    ELSE IF SubSeq(s, i, i + 1) = "::" THEN i ELSE DoubleColonFrom(s, i + 1)

\* the groups written in `s`, colons between them; none for the empty text
Groups(s) == IF s = "" THEN << >> ELSE Split(s, ":")

\* the 16-bit groups a list of groups stands for, -1 when one of them is
\* ill-formed: every group is hexadecimal, but the last one may be a dotted
\* IPv4 address when `ipv4Last`, which stands for two groups
GroupCount(gs, ipv4Last) ==
    IF gs = << >> THEN 0
    ELSE IF \E i \in 1..(Len(gs) - 1) : ~HexGroup(gs[i]) THEN -1
    ELSE IF HexGroup(gs[Len(gs)]) THEN Len(gs)
    ELSE IF ipv4Last /\ ParsesIpv4(gs[Len(gs)]) THEN Len(gs) + 1
    ELSE -1

\* str::parse::<Ipv6Addr>(): eight groups, or fewer with one "::" that
\* stands for one or more groups of zeros; an IPv4 address may be written
\* for the last two groups, never before the "::"
ParsesIpv6(s) ==
    LET dc == DoubleColonFrom(s, 1) IN
    IF dc = 0 THEN GroupCount(Groups(s), TRUE) = 8
    ELSE LET head == GroupCount(Groups(SubSeq(s, 1, dc - 1)), FALSE)
             tail == GroupCount(Groups(From(s, dc + 2)), TRUE) IN
         head >= 0 /\ tail >= 0 /\ head + tail <= 7

(***************************************************************************)
(* Multiaddr: the text form is the value; MultiaddrProtocols gives the     *)
(* protocol stack str::parse::<Multiaddr> yields, or ParseError.  Of a     *)
(* component the name is kept, and of /p2p the peer identifier.  Peer      *)
(* identifiers are the names of the model's peers: every non-empty text    *)
(* stands for a well-formed one.                                           *)
(***************************************************************************)
ParseError == << << "parse-error" >> >>

P2p(peer) == << "p2p", peer >>

\* what follows the name of a protocol in the text
ProtocolArgument(name) ==
    CASE name = "ip4" -> "ipv4"
      [] name \in { "tcp", "udp", "sctp", "dccp" } -> "u16"
      [] name = "ip6" -> "ipv6"
      [] name \in { "dns", "dns4", "dns6", "dnsaddr" } -> "text"
      [] name \in { "p2p", "ipfs" } -> "peer"
      [] name \in { "p2p-circuit", "quic", "quic-v1", "ws", "wss", "tls", "noise",
                    "http", "https", "utp", "udt", "webtransport", "webrtc-direct" } -> "none"
      [] OTHER -> "unknown"

ArgumentOk(kind, text) ==
    CASE kind = "ipv4" -> ParsesIpv4(text)
      [] kind = "ipv6" -> ParsesIpv6(text)
      [] kind = "u16" -> ParsesU16(text)
      [] kind = "peer" -> text # ""
      [] OTHER -> TRUE

\* Protocol::from_str_parts, part after part until the text ends
RECURSIVE ParseProtocols(_)
ParseProtocols(parts) ==
    IF parts = << >> THEN << >>
    ELSE LET name == parts[1]
             kind == ProtocolArgument(name)
             used == IF kind = "none" THEN 1 ELSE 2 IN
         IF kind = "unknown" \/ Len(parts) < used THEN ParseError
         ELSE IF kind # "none" /\ ~ArgumentOk(kind, parts[2]) THEN ParseError
         ELSE LET rest == ParseProtocols(SubSeq(parts, used + 1, Len(parts))) IN
              IF rest = ParseError THEN ParseError
              ELSE << IF kind = "peer" THEN P2p(parts[2]) ELSE << name >> >> \o rest

\* Multiaddr::from_str: the text is split at "/", nothing may stand before
\* the first "/" and the empty text is the empty address
MultiaddrProtocols(text) ==
    LET parts == Split(text, "/") IN
    IF parts[1] # "" THEN ParseError ELSE ParseProtocols(Tail(parts))

ParsesOk(text) == MultiaddrProtocols(text) # ParseError

\* multiaddr.iter().last() matched against Some(Protocol::P2p(peer_id))
LastIsP2p(text) ==
    /\ ParsesOk(text)
    /\ Len(MultiaddrProtocols(text)) > 0
    /\ Last(MultiaddrProtocols(text))[1] = "p2p"

LastP2pPeer(text) == Last(MultiaddrProtocols(text))[2]

BootstrapPeers == {LastP2pPeer(BOOTSTRAP_NODES[i]) : i \in 1..Len(BOOTSTRAP_NODES)}
BootstrapAddrs == Range(BOOTSTRAP_NODES)

(***************************************************************************)
(* The command line (struct Args, clap derive).                            *)
(***************************************************************************)
\* the defaults of struct Args
DefaultArgs ==
    [ port |-> None, connect |-> None, bootstrap |-> TRUE, relay |-> FALSE,
      name |-> None, dht |-> TRUE, mdns |-> TRUE ]

\* the options that take a value and the switches, by their long name;
\* a bool field is a switch (ArgAction::SetTrue): it takes no value
ValueOptions == { "port", "connect", "name" }
Switches == { "bootstrap", "relay", "dht", "mdns" }

LongOfShort(c) ==
    CASE c = "p" -> "port" [] c = "c" -> "connect" [] c = "n" -> "name"
      [] c = "h" -> "help" [] c = "V" -> "version"
      [] OTHER -> "unknown"

\* one token read as an option: its long name, whether it was written in
\* the long form, whether a value is attached to it ("--name=alice",
\* "-nalice") and that value
ReadOption(tok) ==
    IF StartsWith(tok, "--")
    THEN LET body == From(tok, 3)
             eq == IndexOf(body, "=") IN
         IF eq = 0 THEN [ opt |-> body, long |-> TRUE, attached |-> FALSE, value |-> "" ]
         ELSE [ opt |-> SubSeq(body, 1, eq - 1), long |-> TRUE, attached |-> TRUE,
                value |-> From(body, eq + 1) ]
    ELSE LET rest == From(tok, 3) IN
         [ opt |-> LongOfShort(CharAt(tok, 2)),
           long |-> FALSE,
           attached |-> rest # "",
           value |-> IF StartsWith(rest, "=") THEN From(rest, 2) ELSE rest ]

ValueOk(opt, value) == opt = "port" => ClapU16(value) >= 0

SetOption(a, opt, value) ==
    CASE opt = "port" -> [ a EXCEPT !.port = Some(ClapU16(value)) ]
      [] opt = "connect" -> [ a EXCEPT !.connect = Some(value) ]
      [] opt = "name" -> [ a EXCEPT !.name = Some(value) ]
      [] opt = "bootstrap" -> [ a EXCEPT !.bootstrap = TRUE ]
      [] opt = "relay" -> [ a EXCEPT !.relay = TRUE ]
      [] opt = "dht" -> [ a EXCEPT !.dht = TRUE ]
      [] opt = "mdns" -> [ a EXCEPT !.mdns = TRUE ]

Usage(a) == [ err |-> "usage", args |-> a ]

\* a token that cannot be the value of an option given before it: it reads
\* as another option ("-" alone is a value) or is the "--" that ends the
\* options
NoValue(tok) == StartsWith(tok, "-") /\ tok # "-"

\* Args::parse() over the tokens that are left: Err "usage" is clap's exit
\* with status 2, "help" its exit after --help or --version.  A value
\* attached to --help or --version is refused; -h and -V act as soon as
\* they are read, whatever follows them in the token
RECURSIVE ParseTokens(_, _, _)
ParseTokens(tokens, a, seen) ==
    IF tokens = << >> THEN [ err |-> "", args |-> a ]
    ELSE LET tok == tokens[1] IN
         IF tok = "--" /\ Len(tokens) = 1 THEN [ err |-> "", args |-> a ]
         ELSE IF ~StartsWith(tok, "-") \/ tok = "-" \/ tok = "--" THEN Usage(a)
         ELSE LET o == ReadOption(tok) IN
              IF o.opt \in { "help", "version" }
              THEN IF o.long /\ o.attached THEN Usage(a) ELSE [ err |-> "help", args |-> a ]
              ELSE IF o.opt \notin ValueOptions \cup Switches \/ o.opt \in seen THEN Usage(a)
              ELSE IF o.opt \in Switches
                   THEN IF o.attached THEN Usage(a)
                        ELSE ParseTokens(Tail(tokens), SetOption(a, o.opt, ""),
                                         seen \cup { o.opt })
              ELSE IF o.attached
                   THEN IF ValueOk(o.opt, o.value)
                        THEN ParseTokens(Tail(tokens), SetOption(a, o.opt, o.value),
                                         seen \cup { o.opt })
                        ELSE Usage(a)
              ELSE IF Len(tokens) < 2 \/ NoValue(tokens[2])
                      \/ ~ValueOk(o.opt, tokens[2])
                   THEN Usage(a)
                   ELSE ParseTokens(Tail(Tail(tokens)), SetOption(a, o.opt, tokens[2]),
                                    seen \cup { o.opt })

ArgsParse(argv) == ParseTokens(argv, DefaultArgs, {})

\* the addresses given to --connect: two that are no multiaddr (one of
\* them the lone "-", one with an ill-formed IPv6 address), one without a
\* peer identifier, one whose peer identifier is not the last component,
\* one that ends with the peer identifier
ConnectArgs ==
    { "not a multiaddr",
      "-",
      "/ip6/zz/tcp/4001/p2p/p1",
      "/ip4/10.0.0.1/tcp/4001",
      "/ip4/10.0.0.9/tcp/4001/p2p/p2/p2p-circuit",
      "/ip4/10.0.0.1/tcp/4001/p2p/p1" }

\* the command lines the node is started with: none of the options, a
\* value after a switch or attached to one, a value attached to --help,
\* every --connect address, and a port, the switches and a name with the
\* address that ends with the peer identifier
CommandLines ==
         { << >>,
           << "--bootstrap", "false" >>,
           << "--bootstrap=false" >>,
           << "--dht", "false" >>,
           << "--help=foo" >> }
    \cup { << "--connect", c >> : c \in ConnectArgs \ { "/ip4/10.0.0.1/tcp/4001/p2p/p1" } }
    \cup { << "--port=-0", "--bootstrap", "--dht", "--name", "alice",
              "--connect", "/ip4/10.0.0.1/tcp/4001/p2p/p1" >> }

\* the arguments main can get from Args::parse()
ArgsSet == { ArgsParse(c).args : c \in { l \in CommandLines : ArgsParse(l).err = "" } }

(***************************************************************************)
(* HandshakeMessage and its JSON text (serde_json).  A JSON value is a     *)
(* tagged pair; the text of an object is its members in order, plus        *)
(* whether the text is complete (a truncated text is not).                 *)
(***************************************************************************)
JNull == << "null" >>
JStr(s) == << "string", s >>
JNum(n) == << "number", n >>

NameOrAnonymous(node_name) == IF node_name = None THEN "Anonymous Node" ELSE node_name[1]

Pad2(n) == IF n < 10 THEN "0" \o ToString(n) ELSE ToString(n)

\* chrono::Utc::now().format("%H:%M:%S") at `t` seconds since the epoch, t >= 0
FormatHMS(t) ==
    Pad2((t \div 3600) % 24) \o ":" \o Pad2((t \div 60) % 60) \o ":" \o Pad2(t % 60)

\* a faulty send_handshake_message: the handshake names the peer the
\* connection was established with instead of the node itself
SendHandshakeWrongId(node_name, local, peer_id, t) ==
    [ node_name |-> node_name,
      peer_id   |-> peer_id,
      timestamp |-> t,
      message   |-> "Hello from " \o NameOrAnonymous(node_name) \o "! :wave:" ]

\* the struct literal of send_handshake_message; `peer_id` is the peer the
\* connection was established with, used only for the log line
SendHandshake(node_name, local, peer_id, t) ==
    [ node_name |-> node_name,
      peer_id   |-> local,
      timestamp |-> t,
      message   |-> "Hello from " \o NameOrAnonymous(node_name) \o "! :wave:" ]

\* a faulty broadcast_handshake: the periodic handshake carries the
\* greeting of send_handshake_message
BroadcastHandshakeSameGreeting(node_name, local, t, t2) ==
    [ node_name |-> node_name,
      peer_id   |-> local,
      timestamp |-> t,
      message   |-> "Hello from " \o NameOrAnonymous(node_name) \o "! :wave:" ]

\* the struct literal of broadcast_handshake: `t` is the clock read by
\* SystemTime::now() for timestamp, `t2` the clock read after it by
\* chrono::Utc::now() for message
BroadcastHandshake(node_name, local, t, t2) ==
    [ node_name |-> node_name,
      peer_id   |-> local,
      timestamp |-> t,
      message   |-> "Periodic handshake from " \o NameOrAnonymous(node_name)
                        \o "! Current time: " \o FormatHMS(t2) ]

\* a faulty encoder: an absent node name is written as the empty string
ToJsonNoneAsEmpty(h) ==
    [ members  |-> << << "node_name", IF h.node_name = None THEN JStr("")
                                                          ELSE JStr(h.node_name[1]) >>,
                      << "peer_id", JStr(h.peer_id) >>,
                      << "timestamp", JNum(h.timestamp) >>,
                      << "message", JStr(h.message) >> >>,
      complete |-> TRUE ]

\* serde_json::to_string(&handshake): fields in declaration order
ToJson(h) ==
    [ members  |-> << << "node_name", IF h.node_name = None THEN JNull
                                                          ELSE JStr(h.node_name[1]) >>,
                      << "peer_id", JStr(h.peer_id) >>,
                      << "timestamp", JNum(h.timestamp) >>,
                      << "message", JStr(h.message) >> >>,
      complete |-> TRUE ]

\* the first n members of a text, cut before the closing brace
Truncated(text, n) == [ members |-> SubSeq(text.members, 1, n), complete |-> FALSE ]

Values(text, key) ==
    { text.members[i][2] : i \in { j \in 1..Len(text.members) : text.members[j][1] = key } }
Occurrences(text, key) ==
    Cardinality({ j \in 1..Len(text.members) : text.members[j][1] = key })
TheValue(text, key) == CHOOSE v \in Values(text, key) : TRUE

\* serde_json::from_slice::<HandshakeMessage>(data): the derived Deserialize
\* rejects an incomplete text, a duplicate or a missing required field and a
\* value of the wrong type, a timestamp below 0 being no u64; a missing
\* Option field is None
DecodeOk(text) ==
    /\ text.complete
    /\ \A k \in {"node_name", "peer_id", "timestamp", "message"} : Occurrences(text, k) <= 1
    /\ \A k \in {"peer_id", "timestamp", "message"} : Occurrences(text, k) = 1
    /\ TheValue(text, "peer_id")[1] = "string"
    /\ TheValue(text, "message")[1] = "string"
    /\ TheValue(text, "timestamp")[1] = "number"
    /\ TheValue(text, "timestamp")[2] >= 0
    /\ Occurrences(text, "node_name") = 1 =>
           TheValue(text, "node_name")[1] \in {"null", "string"}

FromJson(text) ==
    [ node_name |-> IF Occurrences(text, "node_name") = 0
                        \/ TheValue(text, "node_name") = JNull
                    THEN None
                    ELSE Some(TheValue(text, "node_name")[2]),
      peer_id   |-> TheValue(text, "peer_id")[2],
      timestamp |-> TheValue(text, "timestamp")[2],
      message   |-> TheValue(text, "message")[2] ]

(***************************************************************************)
(* Commands a handler issues to the collaborators.                         *)
(***************************************************************************)
CmdAddAddress(peer, addr) == [ op |-> "add_address", peer |-> peer, addr |-> addr, ok |-> TRUE ]
CmdDial(target, ok) == [ op |-> "dial", target |-> target, ok |-> ok ]
CmdPublish(topic, data, ok) == [ op |-> "publish", topic |-> topic, data |-> data, ok |-> ok ]
CmdBootstrap(ok) == [ op |-> "bootstrap", ok |-> ok ]
CmdGetClosestPeers(key) == [ op |-> "get_closest_peers", key |-> key, ok |-> TRUE ]

\* the identifiers PeerId::random() may return
RandomPeerIds == {"r1", "r2"}

Ops(cs) == [ i \in 1..Len(cs) |-> cs[i].op ]
Count(cs, op) == Cardinality({ i \in 1..Len(cs) : cs[i].op = op })
Failed(cs) == \E i \in 1..Len(cs) : ~cs[i].ok

(***************************************************************************)
(* Events swarm.next() returns (SwarmEvent), by the match arm that takes   *)
(* them.                                                                   *)
(***************************************************************************)
PairA == << "p1", "/ip4/10.0.0.1/tcp/4001" >>
PairB == << "p2", "/ip4/10.0.0.2/tcp/4001" >>

\* mdns::Event::Discovered / Expired: lists of (peer, address)
DiscoveredLists == { << >>, << PairA >>, << PairB >>, << PairA, PairB >> }
ExpiredLists == { << PairA >> }
\* identify::Info::listen_addrs of the identified peer
IdentifyInfos ==
    { [ peer |-> "p1", listen_addrs |-> << "/ip4/10.0.0.1/tcp/4001" >> ],
      [ peer |-> "p2", listen_addrs |-> << "/ip4/10.0.0.1/tcp/4001", "/ip4/10.0.0.2/tcp/4001" >> ] }
\* kad::GetClosestPeersOk::peers
ClosestLists == { << >>, << "p1" >>, << "p1", "p2" >>, << "p2", "p1" >> }

\* payloads of received gossipsub messages: a peer's handshake, whole,
\* cut after two members, and with a timestamp of -1
RemoteHandshake == ToJson(SendHandshake(Some("bob"), "p1", "self", 0))
ReceivedMessages ==
    { [ topic |-> HANDSHAKE_TOPIC, data |-> RemoteHandshake ],
      [ topic |-> HANDSHAKE_TOPIC, data |-> Truncated(RemoteHandshake, 2) ],
      [ topic |-> HANDSHAKE_TOPIC,
        data |-> ToJson(SendHandshake(Some("bob"), "p1", "self", -1)) ],
      [ topic |-> "other-topic", data |-> RemoteHandshake ] }

\* the arms whose body only logs, and `_ => {}`
LogOnlyKinds ==
    { "AutonatStatusChanged", "Dcutr", "RelayReservationReqAccepted", "MdnsExpired",
      "KadBootstrapOk", "Ping", "ConnectionClosed", "IncomingConnection",
      "OutgoingConnectionError", "IncomingConnectionError", "Other" }

EventPayloads ==
         { [ kind |-> k ] : k \in (LogOnlyKinds \ { "MdnsExpired", "ConnectionClosed" })
                                       \cup { "NewListenAddr" } }
    \cup { [ kind |-> "MdnsDiscovered", list |-> l ] : l \in DiscoveredLists }
    \cup { [ kind |-> "MdnsExpired", list |-> l ] : l \in ExpiredLists }
    \cup { [ kind |-> "GossipsubMessage", message |-> m ] : m \in ReceivedMessages }
    \cup { [ kind |-> "IdentifyReceived", info |-> i ] : i \in IdentifyInfos }
    \cup { [ kind |-> "KadGetClosestPeersOk", peers |-> l ] : l \in ClosestLists }
    \cup { [ kind |-> "ConnectionEstablished", peer_id |-> p ] : p \in Peers }
    \cup { [ kind |-> "ConnectionClosed", peer_id |-> p ] : p \in Peers }

NoItem == [ kind |-> "none" ]
HandshakeTick == [ kind |-> "HandshakeTick" ]
BootstrapTick == [ kind |-> "BootstrapTick" ]

(***************************************************************************)
(* State.                                                                  *)
(***************************************************************************)
VARIABLES
    argv,           \* the command line, token by token
    pc,             \* where main / run stands: "main" (before Args::parse),
                    \* "start" (before P2PNode::new), "constructed", "ready",
                    \* "select" (at select!), "handling" (in a branch), "exited"
    exitErr,        \* the error main returned with, "" when none
    args,           \* the parsed command line
    node_name,      \* P2PNode.node_name
    local_peer_id,  \* swarm.local_peer_id()
    rt,             \* kademlia: peer -> the addresses registered for it, in order
    connected,      \* swarm.connected_peers()
    netQueue,       \* the events waiting for swarm.next(), oldest first, each by
                    \* its number in the order of delivery (Counted); what the
                    \* event is
                    \* shows when swarm.next() returns it
    delivered,      \* how many events the collaborators have produced (Counted)
    hsDue,          \* ticks of handshake_interval that are due and not taken
    bsDue,          \* ticks of bootstrap_interval that are due and not taken
    cur,            \* the item the current (or last) loop iteration took
    active,         \* branches of select! entered and not yet left
    cmds,           \* commands issued by the current (or last) handler / step
    decoded,        \* the last handler's from_slice result: "none", "ok", "err"
    netHandled,     \* network events whose handler has completed (Counted)
    nBootstrap,     \* kademlia.bootstrap() calls so far (Counted)
    nNewListen,     \* NewListenAddr events handled so far (Counted)
    nBootTicks,     \* bootstrap_interval ticks handled so far (Counted)
    lastHellos      \* the bytes send_handshake_message gave to publish in the
                    \* connection-established events handled one after the
                    \* other up to the last item handled: at most the last two,
                    \* the later one last

vars == << argv, pc, exitErr, args, node_name, local_peer_id, rt, connected, netQueue,
           delivered, hsDue, bsDue, cur, active, cmds,
           decoded, netHandled, nBootstrap, nNewListen, nBootTicks, lastHellos >>

nodeVars == << node_name, local_peer_id >>
timerVars == << hsDue, bsDue >>
envVars == << netQueue, delivered >>
countVars == << netHandled, nBootstrap, nNewListen, nBootTicks >>

\* the counts are history of the run, not state of the program.  A count is
\* kept up to its bound `cap`; cap + 1 reads "not counted" and stays
NotCounted(cap) == cap + 1
Counted(n, cap) == IF n > cap THEN NotCounted(cap) ELSE n
\* kademlia.bootstrap() is called once on entering run, once for every
\* NewListenAddr event and once for every tick of bootstrap_interval
MaxBootstrapCalls == 1 + MaxEvents + MaxBootTicks

KnownPeers == Peers \cup BootstrapPeers

EmptyTable == [ p \in KnownPeers |-> << >> ]

\* kad::Behaviour::add_address.  The routing table is a collaborator: its
\* code is libp2p's and is not part of the repository, which only calls it
\* and drops what it returns.  What it does with an address is taken from
\* the specification of the collaborator (an address submitted for a peer
\* is registered; per (peer, address) pair a duplicate submission is
\* idempotent), not from code: the address joins the peer's entry unless
\* the entry already holds it.  A table that refuses an address
\* (RoutingUpdate::Failed or Pending, a full bucket) is not modelled.
KadAddAddress(table, peer, addr) ==
    IF addr \in Range(table[peer]) THEN table
    ELSE [ table EXCEPT ![peer] = Append(@, addr) ]

\* the (peer, address) entries of the table
Entries(table) ==
    UNION { { << p, table[p][i] >> : i \in 1..Len(table[p]) } : p \in KnownPeers }
NoDuplicates(table) ==
    \A p \in KnownPeers : Cardinality(Range(table[p])) = Len(table[p])

(***************************************************************************)
(* Start-up: main, P2PNode::new, connect_to_peer, the head of run.         *)
(***************************************************************************)
\* the program before main runs
InitProgram ==
    /\ argv \in CommandLines
    /\ pc = "main"
    /\ exitErr = ""
    /\ args = DefaultArgs
    /\ node_name = None
    /\ local_peer_id = NoPeerId
    /\ rt = EmptyTable
    /\ connected = {}
    /\ netQueue = << >>
    /\ hsDue = 0 /\ bsDue = 0
    /\ cur = [ seq |-> 0, ev |-> NoItem ]
    /\ active = 0
    /\ cmds = << >>
    /\ decoded = "none"
    /\ lastHellos = << >>

Init ==
    /\ InitProgram
    /\ delivered = 0
    /\ netHandled = 0 /\ nBootstrap = 0 /\ nNewListen = 0 /\ nBootTicks = 0

\* the loop of P2PNode::new over BOOTSTRAP_NODES: the addresses it registers
RECURSIVE RegisterBootstrapNodes(_)
RegisterBootstrapNodes(addrs) ==
    IF addrs = << >> THEN << >>
    ELSE (IF LastIsP2p(addrs[1])
          THEN << CmdAddAddress(LastP2pPeer(addrs[1]), addrs[1]) >>
          ELSE << >>) \o RegisterBootstrapNodes(Tail(addrs))

\* kademlia after a list of commands: each add_address in order
RECURSIVE ApplyAddresses(_, _)
ApplyAddresses(table, cs) ==
    IF cs = << >> THEN table
    ELSE ApplyAddresses(
             IF cs[1].op = "add_address" THEN KadAddAddress(table, cs[1].peer, cs[1].addr)
                                         ELSE table,
             Tail(cs))

\* main: let args = Args::parse(); clap ends the process on a command line
\* it rejects, before P2PNode::new is called
MainParse ==
    /\ pc = "main"
    /\ LET r == ArgsParse(argv) IN
         /\ pc' = IF r.err = "" THEN "start" ELSE "exited"
         /\ exitErr' = r.err
         /\ args' = r.args
    /\ UNCHANGED << argv, nodeVars, rt, connected, envVars, timerVars, cur, active, cmds,
                    decoded, countVars, lastHellos >>

\* the steps of P2PNode::new that can return Err: "config" stands for those
\* before the loop over BOOTSTRAP_NODES (noise, gossipsub, mdns), "listen"
\* for swarm.listen_on and gossipsub.subscribe, which come after it
SetupOutcomes == { "ok", "config", "listen" }

\* P2PNode::new(name, port, enable_dht, enable_mdns, use_bootstrap, relay_mode)
NodeNew ==
    /\ pc = "start"
    /\ \E outcome \in SetupOutcomes, id \in LocalPeerIds :
         /\ cmds' = IF outcome # "config" /\ args.bootstrap /\ args.dht
                    THEN RegisterBootstrapNodes(BOOTSTRAP_NODES) ELSE << >>
         /\ rt' = ApplyAddresses(rt, cmds')
         /\ IF outcome = "ok"
            THEN /\ pc' = "constructed"
                 /\ local_peer_id' = id
                 /\ node_name' = args.name
                 /\ UNCHANGED exitErr
            ELSE /\ pc' = "exited"
                 /\ exitErr' = "setup"
                 /\ UNCHANGED << local_peer_id, node_name >>
    /\ UNCHANGED << argv, args, connected, envVars, timerVars, cur, active, decoded,
                    countVars, lastHellos >>

\* a faulty connect_to_peer: it dials before it looks for the peer identifier
ConnectToPeerDialFirst(addr, dialOk) ==
    IF ~ParsesOk(addr) THEN [ cmds |-> << >>, err |-> "parse" ]
    ELSE IF ~LastIsP2p(addr)
         THEN [ cmds |-> << CmdDial(addr, dialOk) >>, err |-> "Multiaddr must contain peer ID" ]
         ELSE [ cmds |-> << CmdDial(addr, dialOk) >>, err |-> IF dialOk THEN "" ELSE "dial" ]

\* a faulty connect_to_peer: an Err of swarm.dial is logged, not returned
ConnectToPeerLogsDialError(addr, dialOk) ==
    IF ~ParsesOk(addr) THEN [ cmds |-> << >>, err |-> "parse" ]
    ELSE IF LastIsP2p(addr)
         THEN [ cmds |-> << CmdDial(addr, dialOk) >>, err |-> "" ]
         ELSE [ cmds |-> << >>, err |-> "Multiaddr must contain peer ID" ]

\* connect_to_peer(addr): the commands it issues and the error it returns
\* ("" for Ok); `dialOk` is the outcome of swarm.dial, whose Err the `?`
\* returns to main
ConnectToPeer(addr, dialOk) ==
    IF ~ParsesOk(addr) THEN [ cmds |-> << >>, err |-> "parse" ]
    ELSE IF LastIsP2p(addr)
         THEN [ cmds |-> << CmdDial(addr, dialOk) >>, err |-> IF dialOk THEN "" ELSE "dial" ]
         ELSE [ cmds |-> << >>, err |-> "Multiaddr must contain peer ID" ]

\* main: if let Some(addr) = args.connect { node.connect_to_peer(&addr).await?; }
MainConnect ==
    /\ pc = "constructed"
    /\ IF args.connect = None
       THEN /\ pc' = "ready"
            /\ cmds' = << >>
            /\ UNCHANGED exitErr
       ELSE \E dialOk \in BOOLEAN :
              LET r == ConnectToPeer(args.connect[1], dialOk) IN
              /\ cmds' = r.cmds
              /\ exitErr' = r.err
              /\ pc' = IF r.err = "" THEN "ready" ELSE "exited"
    /\ UNCHANGED << argv, args, nodeVars, rt, connected, envVars, timerVars, cur, active,
                    decoded, countVars, lastHellos >>

\* bootstrap_global_network: one dial per bootstrap address that parses,
\* then kademlia.bootstrap(); every failure is logged and dropped
RECURSIVE DialAll(_, _)
DialAll(addrs, oks) ==
    IF addrs = << >> THEN << >>
    ELSE (IF ParsesOk(addrs[1]) THEN << CmdDial(addrs[1], oks[1]) >> ELSE << >>)
         \o DialAll(Tail(addrs), Tail(oks))

BootstrapGlobalNetwork(oks, bootOk) ==
    [ cmds |-> DialAll(BOOTSTRAP_NODES, oks) \o << CmdBootstrap(bootOk) >>, err |-> "" ]

\* run, up to the loop: bootstrap_global_network().await?, then the two
\* intervals, whose first tick is due at once
RunEntry ==
    /\ pc = "ready"
    /\ \E oks \in [ 1..Len(BOOTSTRAP_NODES) -> BOOLEAN ], bootOk \in BOOLEAN :
         LET r == BootstrapGlobalNetwork(oks, bootOk) IN
         /\ cmds' = r.cmds
         /\ exitErr' = r.err
         /\ pc' = IF r.err = "" THEN "select" ELSE "exited"
         /\ nBootstrap' = Counted(nBootstrap + Count(r.cmds, "bootstrap"), MaxBootstrapCalls)
    /\ hsDue' = 1 /\ bsDue' = 1
    /\ UNCHANGED << argv, args, nodeVars, rt, connected, envVars, cur, active, decoded,
                    netHandled, nNewListen, nBootTicks, lastHellos >>

(***************************************************************************)
(* The collaborators, while the loop runs.                                 *)
(***************************************************************************)
Running == pc \in {"select", "handling"}
Handling(kind) == pc = "handling" /\ cur.ev.kind = kind

\* a collaborator has an event ready for swarm.next(): at any time while
\* the loop runs, and as often as the network has something to report
Deliver ==
    /\ Running
    /\ Len(netQueue) < MaxWaiting
    /\ netQueue' = Append(netQueue, Counted(delivered + 1, MaxEvents))
    /\ delivered' = Counted(delivered + 1, MaxEvents)
    /\ UNCHANGED << pc, exitErr, argv, args, nodeVars, rt, connected, timerVars, cur,
                    active, cmds, decoded, countVars, lastHellos >>

\* tokio::time::interval, MissedTickBehavior::Burst (the default): every
\* elapsed period makes one more tick due, period after period for as long
\* as the loop runs
HandshakePeriodElapses ==
    /\ Running
    /\ hsDue < MaxDue
    /\ hsDue' = hsDue + 1
    /\ UNCHANGED << pc, exitErr, argv, args, nodeVars, rt, connected, envVars, bsDue,
                    cur, active, cmds, decoded, countVars, lastHellos >>

BootstrapPeriodElapses ==
    /\ Running
    /\ bsDue < MaxDue
    /\ bsDue' = bsDue + 1
    /\ UNCHANGED << pc, exitErr, argv, args, nodeVars, rt, connected, envVars, hsDue,
                    cur, active, cmds, decoded, countVars, lastHellos >>

(***************************************************************************)
(* select!: one ready branch is taken.                                     *)
(***************************************************************************)
\* a faulty loop: a ready source is taken while a branch body is running
LoopAtSelectAnytime == Running

\* the loop stands at select! only when no branch body is running
LoopAtSelect == pc = "select"

\* a faulty stream: the newest waiting event is returned first
NextEventNewest(q) == Len(q)

\* which waiting event swarm.next() returns: the oldest
NextEvent(q) == 1

\* the branches of select! whose future is ready
ReadyBranches ==
         (IF netQueue # << >> THEN { "swarm" } ELSE {})
    \cup (IF hsDue > 0 THEN { "handshake" } ELSE {})
    \cup (IF bsDue > 0 THEN { "bootstrap" } ELSE {})

\* a faulty select!: the swarm branch is polled first on every pass and
\* completes whenever an event waits; between the timers the choice stays
\* random
SelectChoicesSwarmFirst(ready) ==
    IF "swarm" \in ready THEN { "swarm" } ELSE ready

\* select! polls its branches in an order drawn at random on every pass:
\* any ready branch may be the one that completes
SelectChoices(ready) == ready

Without(q, i) == SubSeq(q, 1, i - 1) \o SubSeq(q, i + 1, Len(q))

\* the swarm's connection set once it has reported `e`
ConnectedAfter(conn, e) ==
    CASE e.kind = "ConnectionEstablished" -> conn \cup { e.peer_id }
      [] e.kind = "ConnectionClosed" -> conn \ { e.peer_id }
      [] OTHER -> conn

Enter(item) ==
    /\ pc' = "handling"
    /\ cur' = item
    /\ active' = active + 1
    /\ cmds' = << >>
    /\ decoded' = "none"

\* event = self.swarm.next() => { if let Some(event) = event { match event ...
SelectNetworkEvent ==
    /\ LoopAtSelect
    /\ "swarm" \in SelectChoices(ReadyBranches)
    /\ \E e \in EventPayloads :
         /\ Enter([ seq |-> netQueue[NextEvent(netQueue)], ev |-> e ])
         /\ connected' = ConnectedAfter(connected, e)
    /\ netQueue' = Without(netQueue, NextEvent(netQueue))
    /\ UNCHANGED << exitErr, argv, args, nodeVars, rt, delivered, timerVars, countVars, lastHellos >>

\* a faulty interval (MissedTickBehavior::Skip): a tick taken late stands
\* for all the ticks missed before it
TickCoalesced(due) == 0

\* Interval::tick() returning with `due` ticks due: the deadline moves on
\* by one period (MissedTickBehavior::Burst), the later ticks stay due
Tick(due) == due - 1

\* _ = handshake_interval.tick() => ...
SelectHandshakeTick ==
    /\ LoopAtSelect
    /\ "handshake" \in SelectChoices(ReadyBranches)
    /\ hsDue' = Tick(hsDue)
    /\ Enter([ seq |-> 0, ev |-> HandshakeTick ])
    /\ UNCHANGED << exitErr, argv, args, nodeVars, rt, connected, envVars, bsDue,
                    countVars, lastHellos >>

\* _ = bootstrap_interval.tick() => ...
SelectBootstrapTick ==
    /\ LoopAtSelect
    /\ "bootstrap" \in SelectChoices(ReadyBranches)
    /\ bsDue' = Tick(bsDue)
    /\ Enter([ seq |-> 0, ev |-> BootstrapTick ])
    /\ UNCHANGED << exitErr, argv, args, nodeVars, rt, connected, envVars, hsDue,
                    countVars, lastHellos >>

(***************************************************************************)
(* The branch bodies.  Each computes the commands it issues; `oks` are the *)
(* results the collaborator returns for them.                              *)
(***************************************************************************)
\* a faulty branch body: the first Err is returned (`?`) and ends run
AfterHandlerReturnsErr(cs) == IF Failed(cs) THEN "exited" ELSE "select"

\* where the loop stands after a branch body whose commands were `cs`:
\* every Err is logged (if let Err(e) = ...), none is returned
AfterHandler(cs) == "select"

LastTwo(q) == IF Len(q) > 2 THEN SubSeq(q, Len(q) - 1, Len(q)) ELSE q

Leave(cs) ==
    /\ cmds' = cs
    /\ pc' = AfterHandler(cs)
    /\ exitErr' = IF AfterHandler(cs) = "exited" THEN "handler" ELSE exitErr
    /\ active' = active - 1
    /\ netHandled' = IF cur.seq > 0 THEN Counted(netHandled + 1, MaxEvents) ELSE netHandled
    /\ nBootstrap' = Counted(nBootstrap + Count(cs, "bootstrap"), MaxBootstrapCalls)
    /\ nNewListen' = IF cur.ev.kind = "NewListenAddr"
                      THEN Counted(nNewListen + 1, MaxEvents) ELSE nNewListen
    /\ nBootTicks' = IF cur.ev.kind = "BootstrapTick"
                      THEN Counted(nBootTicks + 1, MaxBootTicks) ELSE nBootTicks
    /\ lastHellos' = IF cur.ev.kind = "ConnectionEstablished" /\ Len(cs) > 0
                      THEN LastTwo(Append(lastHellos, cs[1].data))
                      ELSE << >>
    /\ UNCHANGED << argv, args, nodeVars, connected, envVars, timerVars, cur >>

\* a branch body panics: the process ends (exit status 101) with the item
\* taken, none of the body's later commands issued and no handler left
\* running
Panic ==
    /\ pc' = "exited"
    /\ exitErr' = "panic"
    /\ cmds' = << >>
    /\ active' = active - 1
    /\ UNCHANGED << argv, args, nodeVars, connected, envVars, timerVars, cur, countVars,
                    lastHellos >>

\* a faulty Discovered arm: the dial comes before the registration
RECURSIVE MdnsDiscoveredDialFirst(_, _)
MdnsDiscoveredDialFirst(list, oks) ==
    IF list = << >> THEN << >>
    ELSE << CmdDial(list[1][2], oks[1]), CmdAddAddress(list[1][1], list[1][2]) >>
         \o MdnsDiscoveredDialFirst(Tail(list), Tail(oks))

\* mdns::Event::Discovered(list): add_address, then dial, pair by pair
RECURSIVE MdnsDiscovered(_, _)
MdnsDiscovered(list, oks) ==
    IF list = << >> THEN << >>
    ELSE << CmdAddAddress(list[1][1], list[1][2]), CmdDial(list[1][2], oks[1]) >>
         \o MdnsDiscovered(Tail(list), Tail(oks))

HandleMdnsDiscovered ==
    /\ Handling("MdnsDiscovered")
    /\ \E oks \in [ 1..Len(cur.ev.list) -> BOOLEAN ] :
         LET cs == MdnsDiscovered(cur.ev.list, oks) IN
         /\ rt' = ApplyAddresses(rt, cs)
         /\ Leave(cs)
    /\ UNCHANGED << decoded >>

\* identify::Event::Received { peer_id, info }
RECURSIVE IdentifyReceived(_, _)
IdentifyReceived(peer_id, listen_addrs) ==
    IF listen_addrs = << >> THEN << >>
    ELSE << CmdAddAddress(peer_id, listen_addrs[1]) >>
         \o IdentifyReceived(peer_id, Tail(listen_addrs))

HandleIdentifyReceived ==
    /\ Handling("IdentifyReceived")
    /\ LET cs == IdentifyReceived(cur.ev.info.peer, cur.ev.info.listen_addrs) IN
         /\ rt' = ApplyAddresses(rt, cs)
         /\ Leave(cs)
    /\ UNCHANGED << decoded >>

\* a faulty GetClosestPeers arm: the first failed dial ends the loop
RECURSIVE ClosestPeersStopOnError(_, _, _)
ClosestPeersStopOnError(peers, conn, oks) ==
    IF peers = << >> THEN << >>
    ELSE IF peers[1] \in conn THEN ClosestPeersStopOnError(Tail(peers), conn, Tail(oks))
    ELSE << CmdDial(peers[1], oks[1]) >>
         \o (IF oks[1] THEN ClosestPeersStopOnError(Tail(peers), conn, Tail(oks)) ELSE << >>)

\* kad::QueryResult::GetClosestPeers(Ok(..)): dial each peer not connected
RECURSIVE ClosestPeers(_, _, _)
ClosestPeers(peers, conn, oks) ==
    IF peers = << >> THEN << >>
    ELSE (IF peers[1] \notin conn THEN << CmdDial(peers[1], oks[1]) >> ELSE << >>)
         \o ClosestPeers(Tail(peers), conn, Tail(oks))

HandleClosestPeers ==
    /\ Handling("KadGetClosestPeersOk")
    /\ \E oks \in [ 1..Len(cur.ev.peers) -> BOOLEAN ] :
         Leave(ClosestPeers(cur.ev.peers, connected, oks))
    /\ UNCHANGED << rt, decoded >>

\* a faulty re-bootstrap: a failed bootstrap request ends the branch body
\* before the lookup
RebootstrapStopOnError(bootOk, key) ==
    IF bootOk THEN << CmdBootstrap(bootOk), CmdGetClosestPeers(key) >>
    ELSE << CmdBootstrap(bootOk) >>

\* kademlia.bootstrap(), then get_closest_peers(PeerId::random()): the body
\* of the NewListenAddr arm and of the bootstrap_interval branch
Rebootstrap(bootOk, key) == << CmdBootstrap(bootOk), CmdGetClosestPeers(key) >>

\* a faulty NewListenAddr arm: the address is logged and nothing is
\* commanded, discovery is left to the bootstrap timer
NewListenAddrLogsOnly(bootOk, key) == << >>

\* SwarmEvent::NewListenAddr: the address is logged, then the DHT is
\* bootstrapped and a random walk started
NewListenAddr(bootOk, key) == Rebootstrap(bootOk, key)

HandleNewListenAddr ==
    /\ Handling("NewListenAddr")
    /\ \E bootOk \in BOOLEAN, key \in RandomPeerIds : Leave(NewListenAddr(bootOk, key))
    /\ UNCHANGED << rt, decoded >>

HandleBootstrapTick ==
    /\ Handling("BootstrapTick")
    /\ \E bootOk \in BOOLEAN, key \in RandomPeerIds : Leave(Rebootstrap(bootOk, key))
    /\ UNCHANGED << rt, decoded >>

\* SystemTime::now() and chrono::Utc::now(), in whole seconds from the Unix
\* epoch: the wall clock may stand, move on or be set back between two
\* readings, and may stand before the epoch (a negative reading)
SystemTimeNow == -1..MaxClock

\* duration_since(UNIX_EPOCH) is Ok for a clock at or after the epoch;
\* for an earlier one it is Err, on which .unwrap() panics, in
\* send_handshake_message and broadcast_handshake as well as inside
\* chrono::Utc::now()
DurationSinceEpochOk(t) == t >= 0

\* a faulty send_handshake_message: nothing is published, the peer waits
\* for the next periodic broadcast
SendHandshakeMessageNone(name, local, peer_id, t, ok) == << >>

\* send_handshake_message(peer_id): one publish of the encoded handshake
SendHandshakeMessage(name, local, peer_id, t, ok) ==
    << CmdPublish(HANDSHAKE_TOPIC, ToJson(SendHandshake(name, local, peer_id, t)), ok) >>

HandleConnectionEstablished ==
    /\ Handling("ConnectionEstablished")
    /\ \E ok \in BOOLEAN, t \in SystemTimeNow :
         IF DurationSinceEpochOk(t)
         THEN Leave(SendHandshakeMessage(node_name, local_peer_id, cur.ev.peer_id, t, ok))
         ELSE Panic
    /\ UNCHANGED << rt, decoded >>

\* a faulty broadcast_handshake: one publish per connected peer
RECURSIVE PublishEach(_, _)
PublishEach(n, c) == IF n = 0 THEN << >> ELSE << c >> \o PublishEach(n - 1, c)

BroadcastHandshakePerPeer(name, local, conn, t, t2, ok) ==
    PublishEach(Cardinality(conn),
                CmdPublish(HANDSHAKE_TOPIC, ToJson(BroadcastHandshake(name, local, t, t2)), ok))

\* broadcast_handshake: `conn` is the snapshot of connected_peers()
BroadcastHandshakeMessage(name, local, conn, t, t2, ok) ==
    IF conn # {}
    THEN << CmdPublish(HANDSHAKE_TOPIC, ToJson(BroadcastHandshake(name, local, t, t2)), ok) >>
    ELSE << >>

HandleHandshakeTick ==
    /\ Handling("HandshakeTick")
    /\ \E ok \in BOOLEAN, t \in SystemTimeNow, t2 \in SystemTimeNow :
         IF connected # {} /\ (~DurationSinceEpochOk(t) \/ ~DurationSinceEpochOk(t2))
         THEN Panic
         ELSE Leave(BroadcastHandshakeMessage(node_name, local_peer_id, connected, t, t2, ok))
    /\ UNCHANGED << rt, decoded >>

\* a faulty handle_handshake_message: a payload that fails to decode is
\* taken for a handshake
HandleHandshakeMessageLenient(data) == "ok"

\* gossipsub::Event::Message: handle_handshake_message on the handshake
\* topic, nothing on another one
HandleHandshakeMessage(data) == IF DecodeOk(data) THEN "ok" ELSE "err"

\* a faulty Message arm: a handshake that decodes is answered with the
\* same payload on its topic
GossipsubMessageAnswers(message) ==
    IF message.topic = HANDSHAKE_TOPIC /\ DecodeOk(message.data)
    THEN << CmdPublish(message.topic, message.data, TRUE) >>
    ELSE << >>

\* the commands of the gossipsub::Event::Message arm: it logs and calls
\* handle_handshake_message, which logs (&self)
GossipsubMessage(message) == << >>

HandleGossipsubMessage ==
    /\ Handling("GossipsubMessage")
    /\ decoded' = IF cur.ev.message.topic = HANDSHAKE_TOPIC
                  THEN HandleHandshakeMessage(cur.ev.message.data)
                  ELSE "none"
    /\ Leave(GossipsubMessage(cur.ev.message))
    /\ UNCHANGED << rt >>

\* a faulty Expired arm: the expired addresses are taken out of the table
RECURSIVE MdnsExpiredRemoves(_, _)
MdnsExpiredRemoves(table, list) ==
    IF list = << >> THEN table
    ELSE MdnsExpiredRemoves(
             [ table EXCEPT ![list[1][1]] = SelectSeq(@, LAMBDA a : a # list[1][2]) ],
             Tail(list))

\* mdns::Event::Expired(list): kademlia after the arm, which logs each pair
MdnsExpired(table, list) == table

\* the arms that only log, and `_ => {}`
HandleLogOnly ==
    /\ pc = "handling"
    /\ cur.ev.kind \in LogOnlyKinds
    /\ rt' = IF cur.ev.kind = "MdnsExpired" THEN MdnsExpired(rt, cur.ev.list) ELSE rt
    /\ Leave(<< >>)
    /\ UNCHANGED << decoded >>

(***************************************************************************)
(* The program.                                                            *)
(***************************************************************************)
\* the steps of the program in the runs that are counted in full: the
\* collaborators deliver at most MaxEvents events and at most MaxBootTicks
\* periods of bootstrap_interval elapse, so that every count stays exact
Next ==
    \/ MainParse
    \/ NodeNew
    \/ MainConnect
    \/ RunEntry
    \/ delivered < MaxEvents /\ Deliver
    \/ HandshakePeriodElapses
    \/ nBootTicks + bsDue + (IF Handling("BootstrapTick") THEN 1 ELSE 0) < MaxBootTicks
         /\ BootstrapPeriodElapses
    \/ SelectNetworkEvent
    \/ SelectHandshakeTick
    \/ SelectBootstrapTick
    \/ HandleMdnsDiscovered
    \/ HandleIdentifyReceived
    \/ HandleClosestPeers
    \/ HandleNewListenAddr
    \/ HandleBootstrapTick
    \/ HandleConnectionEstablished
    \/ HandleHandshakeTick
    \/ HandleGossipsubMessage
    \/ HandleLogOnly

Spec == Init /\ [][Next]_vars

\* a branch body runs to its end: every handler is straight-line code
BranchBody ==
    \/ HandleMdnsDiscovered
    \/ HandleIdentifyReceived
    \/ HandleClosestPeers
    \/ HandleNewListenAddr
    \/ HandleBootstrapTick
    \/ HandleConnectionEstablished
    \/ HandleHandshakeTick
    \/ HandleGossipsubMessage
    \/ HandleLogOnly

\* the events of a network with one remote peer, p1
OnePeerEvents ==
    { e \in EventPayloads :
        CASE e.kind \in { "ConnectionEstablished", "ConnectionClosed" } -> e.peer_id = "p1"
          [] e.kind = "IdentifyReceived" -> e.info.peer = "p1"
          [] e.kind \in { "MdnsDiscovered", "MdnsExpired" } -> Range(e.list) \subseteq { PairA }
          [] e.kind = "KadGetClosestPeersOk" -> Range(e.peers) \subseteq { "p1" }
          [] OTHER -> TRUE }

\* the runs that never end their traffic.  The node is started with the
\* default command line; the counts are not kept (each starts as not
\* counted), which leaves the runs free to go on for ever in a finite
\* state space.
FairInit ==
    /\ InitProgram
    /\ argv = << >>
    /\ delivered = NotCounted(MaxEvents)
    /\ netHandled = NotCounted(MaxEvents)
    /\ nNewListen = NotCounted(MaxEvents)
    /\ nBootTicks = NotCounted(MaxBootTicks)
    /\ nBootstrap = NotCounted(MaxBootstrapCalls)

\* a step of the program while the wall clock is not before the epoch, in a
\* network of one remote peer: the collaborators deliver events without
\* end (Deliver) and both timers come due period after period
FairNext ==
    \/ MainParse
    \/ NodeNew
    \/ MainConnect
    \/ RunEntry
    \/ Deliver
    \/ HandshakePeriodElapses
    \/ BootstrapPeriodElapses
    \/ SelectNetworkEvent /\ cur'.ev \in OnePeerEvents
    \/ SelectHandshakeTick
    \/ SelectBootstrapTick
    \/ HandleMdnsDiscovered
    \/ HandleIdentifyReceived
    \/ HandleClosestPeers
    \/ HandleNewListenAddr
    \/ HandleBootstrapTick
    \/ HandleConnectionEstablished /\ exitErr' # "panic"
    \/ HandleHandshakeTick /\ exitErr' # "panic"
    \/ HandleGossipsubMessage
    \/ HandleLogOnly

\* the scheduling of the loop: a branch body that has started finishes, and
\* a branch of select! that is ready pass after pass is taken at some pass
\* (the polling order is random on every pass); when the collaborators
\* deliver events and when periods elapse is left open: neither is required
\* to happen and neither is required to stop.
FairSpec ==
    /\ FairInit
    /\ [][FairNext]_vars
    /\ WF_vars(BranchBody)
    /\ SF_vars(SelectNetworkEvent)
    /\ SF_vars(SelectHandshakeTick)
    /\ SF_vars(SelectBootstrapTick)

(***************************************************************************)
(* The identifier gossipsub keeps of a message to recognise duplicates.    *)
(***************************************************************************)
\* the sequence numbers a signing node gives to the messages it publishes
SequenceNumbers == 1..2

\* what publish hands to message_id_fn: the bytes with the publishing
\* node, the sequence number and the topic
Message(source, sequence_number, topic, data) ==
    [ source |-> source, sequence_number |-> sequence_number,
      topic |-> topic, data |-> data ]

\* DefaultHasher over the bytes, as a decimal string: a fixed function of
\* the bytes (collisions of the 64-bit hash are left out)
DefaultHash(data) == << "hash", data >>

\* a faulty message_id_fn: the identifier of gossipsub's default, the
\* source and the sequence number
MessageIdFnSourceAndSeqno(message) ==
    << "id", message.source, message.sequence_number >>

\* the closure given to message_id_fn in P2PNode::new
MessageIdFn(message) == << "id", DefaultHash(message.data) >>

(***************************************************************************)
(* Properties.                                                             *)
(***************************************************************************)
\* the last loop iteration took `kind` and its branch body has returned
\* (a body that panicked has not)
Handled(kind) == pc # "handling" /\ exitErr # "panic" /\ cur.ev.kind = kind

Publishes(cs) == { i \in 1..Len(cs) : cs[i].op = "publish" }
Dials(cs) == { i \in 1..Len(cs) : cs[i].op = "dial" }

\* C1: a handled handshake tick has issued no command at all and raised no
\* error when no peer was connected, and exactly one publish (and nothing
\* else) when one or more peers were connected.
C1_TickPublishesOnce ==
    Handled("HandshakeTick") =>
        /\ pc = "select" /\ exitErr = ""
        /\ Count(cmds, "publish") = (IF connected = {} THEN 0 ELSE 1)
        /\ Len(cmds) = Count(cmds, "publish")

C1_Witness ==
    /\ Handled("HandshakeTick")
    /\ Cardinality(connected) = 2
    /\ Count(cmds, "publish") = 1

\* C2: every handshake the node publishes decodes to a message whose
\* peer_id is the node's own identity, and the identity never changes once
\* P2PNode::new has set it.
C2_PublishedPeerIdIsLocal ==
    /\ [](\A i \in Publishes(cmds) :
            /\ DecodeOk(cmds[i].data)
            /\ FromJson(cmds[i].data).peer_id = local_peer_id
            /\ local_peer_id \in LocalPeerIds)
    /\ [][pc # "start" => local_peer_id' = local_peer_id]_vars

C2_Witness ==
    /\ Handled("ConnectionEstablished")
    /\ cur.ev.peer_id = "p1"
    /\ Publishes(cmds) # {}
    /\ FromJson(cmds[1].data).peer_id = "self"

\* C3: at most one branch body is in progress; a branch is entered only from
\* select!, by taking exactly one item from exactly one of the three sources,
\* and nothing is taken from a source without entering its branch; commands
\* are issued only by the one branch in progress, as it returns.
TakenFromNetwork == IF Len(netQueue') < Len(netQueue) THEN 1 ELSE 0
TakenFromHandshakeTimer == IF hsDue' < hsDue THEN 1 ELSE 0
TakenFromBootstrapTimer == IF bsDue' < bsDue THEN 1 ELSE 0
Taken == TakenFromNetwork + TakenFromHandshakeTimer + TakenFromBootstrapTimer

C3_OneItemPerIteration ==
    /\ [](active \in {0, 1} /\ (active = 1 <=> pc = "handling"))
    /\ [][ /\ (active' > active) =>
                /\ active = 0 /\ active' = 1
                /\ Taken = 1
                /\ Len(netQueue) - Len(netQueue') \in {0, 1}
                /\ hsDue - hsDue' \in {0, 1}
                /\ bsDue - bsDue' \in {0, 1}
           /\ (Taken > 0) => (active' > active)
           /\ (Running /\ cmds' # cmds) =>
                \/ active' = active + 1 /\ cmds' = << >>
                \/ active = 1 /\ active' = 0 ]_vars

C3_Witness ==
    /\ Handling("HandshakeTick")
    /\ netQueue # << >>
    /\ bsDue > 0
    /\ active = 1

\* C4: network events are handled in the order of their delivery: the
\* event in a branch (or the one whose branch panicked) is the one
\* delivered right after those already handled, and the waiting events
\* follow it in order, none missing.
C4_NetworkEventsInOrder ==
    LET taken == netHandled + (IF (pc = "handling" \/ exitErr = "panic") /\ cur.seq > 0
                               THEN 1 ELSE 0) IN
    /\ (pc = "handling" /\ cur.seq > 0) => cur.seq = netHandled + 1
    /\ \A i \in 1..Len(netQueue) : netQueue[i] = taken + i
    /\ taken + Len(netQueue) = delivered

C4_Witness ==
    /\ pc = "handling"
    /\ cur.seq = 1
    /\ netQueue = << 2 >>

\* C5: once the loop runs it keeps running: whatever a command returns
\* and whatever payload arrives, every branch body returns to select!,
\* run never returns and no terminal state is reached.
C5_LoopNeverLeaves ==
    [][ /\ Running => (Running' /\ exitErr' = "")
        /\ (pc = "handling" /\ pc' # "handling") => pc' = "select" ]_vars

\* the address has a peer identifier among its components (the claims'
\* "encodes / carries a peer identifier"; connect_to_peer itself tests the
\* last component, LastIsP2p)
HasPeerIdComponent(text) ==
    /\ ParsesOk(text)
    /\ \E i \in 1..Len(MultiaddrProtocols(text)) : MultiaddrProtocols(text)[i][1] = "p2p"

\* the --connect addresses of the command lines that have no peer
\* identifier among their components
WithoutPeerId == { c \in ConnectArgs : ~HasPeerIdComponent(c) }

\* main has come through its --connect step
ConnectStepDone ==
    /\ args.connect # None
    /\ pc \in {"ready", "exited"}
    /\ exitErr \notin {"usage", "help", "setup", "panic"}

\* C6: with a --connect address that carries no peer identifier the node
\* issues no dial, exits with an error and never reaches the loop; where
\* connect_to_peer has issued a dial, the address parses and carries a peer
\* identifier.
C6_NoDialWithoutPeerId ==
    /\ (args.connect # None /\ args.connect[1] \in WithoutPeerId) =>
            /\ pc \in {"start", "constructed", "exited"}
            /\ ConnectStepDone => (cmds = << >> /\ exitErr # "")
    /\ (ConnectStepDone /\ Dials(cmds) # {}) =>
            /\ ParsesOk(args.connect[1])
            /\ HasPeerIdComponent(args.connect[1])
            /\ \A i \in Dials(cmds) : cmds[i].target = args.connect[1]

C6_Witness ==
    /\ args.connect = Some("/ip4/10.0.0.1/tcp/4001")
    /\ pc = "exited"
    /\ exitErr = "Multiaddr must contain peer ID"
    /\ cmds = << >>

\* C7: the handler of a connection-established event issues exactly one
\* command, a publish of a well-formed handshake on the handshake topic,
\* before the loop takes anything else.
C7_OnePublishPerConnection ==
    Handled("ConnectionEstablished") =>
        /\ Len(cmds) = 1
        /\ cmds[1].op = "publish"
        /\ cmds[1].topic = HANDSHAKE_TOPIC
        /\ DecodeOk(cmds[1].data)

C7_Witness ==
    /\ Handled("ConnectionEstablished")
    /\ Count(cmds, "publish") = 1
    /\ hsDue > 0

\* C8: for the i-th (peer, address) pair of a Local-peer-found event the
\* handler issues add_address(peer, address) and then one dial of the
\* address, pair after pair, whatever the dials return; every pair is
\* registered afterwards.
C8_RegisterThenDial ==
    Handled("MdnsDiscovered") =>
        /\ Len(cmds) = 2 * Len(cur.ev.list)
        /\ \A i \in 1..Len(cur.ev.list) :
             /\ cmds[2 * i - 1] = CmdAddAddress(cur.ev.list[i][1], cur.ev.list[i][2])
             /\ cmds[2 * i].op = "dial"
             /\ cmds[2 * i].target = cur.ev.list[i][2]
             /\ cur.ev.list[i] \in Entries(rt)

C8_Witness ==
    /\ Handled("MdnsDiscovered")
    /\ Len(cur.ev.list) = 2
    /\ Len(cmds) = 4
    /\ ~cmds[2].ok

\* the (peer, address) pairs an event submits to the routing table
Submitted(e) ==
    CASE e.kind = "MdnsDiscovered" -> Range(e.list)
      [] e.kind = "IdentifyReceived" ->
             { << e.info.peer, a >> : a \in Range(e.info.listen_addrs) }
      [] OTHER -> {}

\* the add_address commands among `cs`, as (peer, address) pairs in order
RECURSIVE Registrations(_)
Registrations(cs) ==
    IF cs = << >> THEN << >>
    ELSE (IF cs[1].op = "add_address" THEN << << cs[1].peer, cs[1].addr >> >> ELSE << >>)
         \o Registrations(Tail(cs))

\* the pairs of an event in the order its handler meets them
SubmittedInOrder(e) ==
    IF e.kind = "MdnsDiscovered" THEN e.list
    ELSE [ i \in 1..Len(e.info.listen_addrs) |-> << e.info.peer, e.info.listen_addrs[i] >> ]

\* C9: the body that handles a Local-peer-found or Identity-received event
\* all of whose pairs are already registered hands every pair to
\* add_address once more, in order, ends without an error whatever the
\* calls it makes return (the loop goes on to its next pass) and leaves the
\* routing table as it was; the table never holds an address twice for a
\* peer.  That the table
\* stores no second copy is the collaborator's part (KadAddAddress, taken
\* from its specification); that the pair is handed on and no error is
\* raised is the handler's.
C9_RegistrationIdempotent ==
    /\ [] NoDuplicates(rt)
    /\ [][ (pc = "handling" /\ Submitted(cur.ev) # {} /\ Submitted(cur.ev) \subseteq Entries(rt))
              => /\ rt' = rt
                 /\ Running'
                 /\ pc' # "handling" =>
                        /\ Registrations(cmds') = SubmittedInOrder(cur.ev)
                        /\ pc' = "select" /\ exitErr' = "" ]_vars

\* the loop is about to handle a Local-peer-found event all of whose pairs
\* are registered
C9_Witness ==
    /\ pc = "handling"
    /\ cur.ev.kind = "MdnsDiscovered"
    /\ Submitted(cur.ev) # {}
    /\ Submitted(cur.ev) \subseteq Entries(rt)

\* C10: the handler of a Closest-peers-found event issues one dial for each
\* listed peer that is not connected, in the order listed, and no other
\* command, whatever the dials return.
C10_DialsExactlyNotConnected ==
    Handled("KadGetClosestPeersOk") =>
        /\ \A i \in 1..Len(cmds) : cmds[i].op = "dial"
        /\ { cmds[i].target : i \in 1..Len(cmds) } = Range(cur.ev.peers) \ connected
        /\ Len(cmds) = Cardinality(Range(cur.ev.peers) \ connected)

C10_Witness ==
    /\ Handled("KadGetClosestPeersOk")
    /\ cur.ev.peers = << "p1", "p2" >>
    /\ connected = {}
    /\ Len(cmds) = 2
    /\ ~cmds[1].ok

\* C11: a handled re-bootstrap tick has issued exactly two commands, one
\* kademlia bootstrap request and then one closest-peers lookup for an
\* identifier drawn by PeerId::random(), also when the bootstrap request
\* returned an error, and the loop is back at select!.
C11_TickRebootstraps ==
    Handled("BootstrapTick") =>
        /\ pc = "select" /\ exitErr = ""
        /\ Len(cmds) = 2
        /\ cmds[1].op = "bootstrap"
        /\ cmds[2].op = "get_closest_peers"
        /\ cmds[2].key \in RandomPeerIds
        /\ cmds[2].ok

C11_Witness ==
    /\ Handled("BootstrapTick")
    /\ Len(cmds) = 2
    /\ ~cmds[1].ok
    /\ cmds[2].op = "get_closest_peers"
    /\ nBootTicks = 2

\* C12: the events whose arm only logs (Local-peer-expired, Bootstrap
\* progress, NAT status changed, connection upgrade, connection closed,
\* outgoing and incoming connection error) leave the routing table as it
\* was from the moment the loop takes them until their branch returns, an
\* expired address staying registered, and their branch issues no command
\* and returns to select!.
QuietKinds ==
    { "MdnsExpired", "KadBootstrapOk", "AutonatStatusChanged", "Dcutr",
      "ConnectionClosed", "OutgoingConnectionError", "IncomingConnectionError" }

C12_LogOnlyEventsAreInert ==
    /\ [](\A k \in QuietKinds : Handled(k) => (cmds = << >> /\ pc = "select"))
    /\ [][ (\/ pc = "select" /\ pc' = "handling" /\ cur'.ev.kind \in QuietKinds
            \/ pc = "handling" /\ cur.ev.kind \in QuietKinds)
              => (rt' = rt /\ nodeVars' = nodeVars) ]_vars

C12_Witness ==
    /\ Handled("MdnsExpired")
    /\ cur.ev.list[1] \in Entries(rt)
    /\ cmds = << >>

\* C13: the branch of a received message on the handshake topic whose
\* payload does not decode rejects it (from_slice returns Err) and returns
\* to select! with no error; it issues no command, leaves the routing
\* table, the identity, the connections and the timers as they were, and
\* puts nothing back on the event stream, so the decode is not retried and
\* the waiting events are the same as before.
Malformed(e) ==
    /\ e.kind = "GossipsubMessage"
    /\ e.message.topic = HANDSHAKE_TOPIC
    /\ ~DecodeOk(e.message.data)

C13_MalformedHandshakeDiscarded ==
    [][ (pc = "handling" /\ Malformed(cur.ev) /\ pc' # "handling") =>
            /\ pc' = "select" /\ exitErr' = ""
            /\ decoded' = "err"
            /\ cmds' = << >>
            /\ rt' = rt /\ nodeVars' = nodeVars /\ connected' = connected
            /\ envVars' = envVars /\ timerVars' = timerVars
            /\ netHandled' = netHandled + 1 ]_vars

C13_Witness ==
    /\ Handled("GossipsubMessage")
    /\ Malformed(cur.ev)
    /\ decoded = "err"
    /\ netQueue # << >>

\* C14 as stated: a timer retains at most one pending tick, so once the
\* loop has taken a tick of a timer no tick of that timer is left pending,
\* however many periods had elapsed.
C14_MissedTicksCoalesced ==
    [][ /\ (hsDue' < hsDue) => hsDue' = 0
        /\ (bsDue' < bsDue) => bsDue' = 0 ]_vars

\* C14, amended: a timer keeps every tick that came due: each elapsed
\* period adds one pending tick, and the pending ticks of a timer go down
\* only by the loop taking one of them into that timer's branch, exactly
\* one per iteration; k periods elapsed while the loop is busy are handled
\* as k ticks.
C14_MissedTicksBurst ==
    [][ /\ (hsDue' > hsDue) => hsDue' = hsDue + 1
        /\ (bsDue' > bsDue) => bsDue' = bsDue + 1
        /\ (hsDue' < hsDue) =>
              (hsDue' = hsDue - 1 /\ pc = "select" /\ pc' = "handling" /\ cur'.ev = HandshakeTick)
        /\ (bsDue' < bsDue) =>
              (bsDue' = bsDue - 1 /\ pc = "select" /\ pc' = "handling" /\ cur'.ev = BootstrapTick) ]_vars

C14_Witness ==
    /\ pc = "handling"
    /\ cur.seq > 0
    /\ hsDue = 2

\* the loop is in the body of the swarm branch
HandlingNetworkEvent == pc = "handling" /\ cur.seq > 0

\* C15: under the fair choice of select!, whenever a tick of either timer
\* is due and the loop is not in that timer's branch (in particular when
\* the tick came due while a network event was being handled), a later
\* pass takes a tick of that timer, and the body that took it runs to its
\* end; whenever a network event waits and the loop is not in the swarm
\* branch, a later pass takes an event.  This holds while events keep
\* arriving and periods keep elapsing without end: neither the network nor
\* a timer keeps another source waiting for ever.
C15_NoReadyTickLost ==
    /\ (hsDue > 0 /\ ~Handling("HandshakeTick")) ~> Handling("HandshakeTick")
    /\ Handling("HandshakeTick") ~> Handled("HandshakeTick")
    /\ (bsDue > 0 /\ ~Handling("BootstrapTick")) ~> Handling("BootstrapTick")
    /\ Handling("BootstrapTick") ~> Handled("BootstrapTick")
    /\ (netQueue # << >> /\ ~HandlingNetworkEvent) ~> HandlingNetworkEvent

\* a tick of the handshake timer has been taken and is being handled while
\* as many network events wait as may wait at once and further ticks of
\* both timers are due
C15_Witness ==
    /\ Handling("HandshakeTick")
    /\ Len(netQueue) = MaxWaiting
    /\ hsDue > 0
    /\ bsDue > 0

\* C16: the text of a handshake decodes, and to a message with the
\* node_name, peer_id, timestamp and message it was built with: for the
\* node name of the command line (present or absent) with every peer
\* identifier, and for every handshake the node has published; encoding
\* the decoded message gives the same text again.
RoundTrips(h) ==
    /\ DecodeOk(ToJson(h))
    /\ FromJson(ToJson(h)) = h
    /\ ToJson(FromJson(ToJson(h))) = ToJson(h)

C16_RoundTrip ==
    /\ pc = "start" =>
          \A p \in LocalPeerIds \cup Peers, t \in 0..MaxClock :
              /\ RoundTrips(SendHandshake(args.name, p, "p1", t))
              /\ \A t2 \in 0..MaxClock : RoundTrips(BroadcastHandshake(args.name, p, t, t2))
    /\ \A i \in Publishes(cmds) :
          LET text == cmds[i].data
              h == FromJson(text) IN
          /\ DecodeOk(text)
          /\ h.node_name = node_name
          /\ h.peer_id = local_peer_id
          /\ h.timestamp \in 0..MaxClock
          /\ Handled("ConnectionEstablished") =>
                h = SendHandshake(node_name, local_peer_id, cur.ev.peer_id, h.timestamp)
          /\ ToJson(h) = text

C16_Witness ==
    /\ Handled("ConnectionEstablished")
    /\ node_name = None
    /\ Publishes(cmds) = { 1 }
    /\ FromJson(cmds[1].data).node_name = None
    /\ FromJson(cmds[1].data).timestamp = 1

\* C17: a node can be started with --bootstrap false; it then holds no
\* address of a well-known bootstrap node in its routing table and has
\* issued neither an add_address for one nor a dial of one, in setup or in
\* the loop.
BootstrapOff == argv \in { << "--bootstrap", "false" >>, << "--bootstrap=false" >> }

C17_BootstrapFlagGuards ==
    /\ (BootstrapOff /\ pc # "main") => (exitErr # "usage" /\ ~args.bootstrap)
    /\ ~args.bootstrap =>
          /\ \A p \in BootstrapPeers : rt[p] = << >>
          /\ \A i \in 1..Len(cmds) :
                /\ cmds[i].op = "add_address" => cmds[i].peer \notin BootstrapPeers
                /\ cmds[i].op = "dial" => cmds[i].target \notin BootstrapAddrs

\* C18 as stated: the message of every handshake is one greeting fixed by
\* the node name, so every payload the node publishes is the payload
\* send_handshake_message builds for the same node name and timestamp.
C18_OneFixedGreeting ==
    \A i \in Publishes(cmds) :
        cmds[i].data =
            ToJson(SendHandshake(node_name, local_peer_id, "p1", FromJson(cmds[i].data).timestamp))

\* C18, amended: every handshake interpolates the node name, "Anonymous
\* Node" when none is configured, but into one of two greetings: the
\* handshake of a connection-established event says "Hello from <name>!",
\* fixed by the name alone; the handshake of a periodic tick says "Periodic
\* handshake from <name>! Current time: <HH:MM:SS>" with the clock read as
\* the message is built.  For the same name and timestamp the two payloads
\* agree in node_name, peer_id and timestamp and differ in message.
DisplayName == IF node_name = None THEN "Anonymous Node" ELSE node_name[1]

C18_TwoGreetings ==
    \A i \in Publishes(cmds) :
        LET h == FromJson(cmds[i].data)
            hello == SendHandshake(node_name, local_peer_id, "p1", h.timestamp) IN
        /\ Handled("ConnectionEstablished") =>
              h.message = "Hello from " \o DisplayName \o "! :wave:"
        /\ Handled("HandshakeTick") =>
              /\ \E t2 \in 0..MaxClock :
                    h.message = "Periodic handshake from " \o DisplayName
                                    \o "! Current time: " \o FormatHMS(t2)
              /\ h.message # hello.message
              /\ cmds[i].data # ToJson(hello)
              /\ [ h EXCEPT !.message = hello.message ] = hello

C18_Witness ==
    /\ Handled("HandshakeTick")
    /\ Publishes(cmds) = { 1 }
    /\ FromJson(cmds[1].data).timestamp = 0
    /\ FromJson(cmds[1].data).message =
          "Periodic handshake from Anonymous Node! Current time: 00:00:01"

\* C19 as stated: the --connect step ends the process only for an address
\* that does not parse or carries no peer identifier; with an address that
\* parses and carries one, a dial that returns an error leaves the node on
\* its way into the loop.
C19_StartupDialRecoverable ==
    ConnectStepDone =>
        /\ pc = "exited" =>
              (~ParsesOk(args.connect[1]) \/ ~HasPeerIdComponent(args.connect[1]))
        /\ (ParsesOk(args.connect[1]) /\ HasPeerIdComponent(args.connect[1]) /\ Failed(cmds)) =>
              pc = "ready"

\* C19, amended: the --connect step ends the process in exactly three
\* cases: the address does not parse, its last component is not a peer
\* identifier, or the dial command returns an error; in the last case the
\* one dial has been issued, its error is what main returns, and the node
\* does not reach the loop.
C19_StartupDialFatal ==
    ConnectStepDone =>
        LET addr == args.connect[1]
            last == IF ParsesOk(addr) THEN Last(MultiaddrProtocols(addr)) ELSE << "" >> IN
        /\ pc = "exited" <=>
              \/ MultiaddrProtocols(addr) = ParseError
              \/ last[1] # "p2p"
              \/ Failed(cmds)
        /\ Failed(cmds) =>
              /\ cmds = << CmdDial(addr, FALSE) >>
              /\ last[1] = "p2p"
              /\ exitErr = "dial"
        /\ pc = "ready" => (cmds = << CmdDial(addr, TRUE) >> /\ exitErr = "")

C19_Witness ==
    /\ args.connect = Some("/ip4/10.0.0.1/tcp/4001/p2p/p1")
    /\ pc = "exited"
    /\ exitErr = "dial"
    /\ cmds = << CmdDial("/ip4/10.0.0.1/tcp/4001/p2p/p1", FALSE) >>

\* C20: the branch of a received gossipsub message, whatever its topic
\* and whether or not its payload decodes, issues no command and leaves
\* the routing table as it was; a publish is only ever issued by the branch
\* of a connection-established event or of a handshake-timer tick.
C20_ReceivingSendsNothing ==
    /\ [](Handled("GossipsubMessage") => (cmds = << >> /\ pc = "select"))
    /\ [](Publishes(cmds) # {} =>
            (Running /\ cur.ev.kind \in { "ConnectionEstablished", "HandshakeTick" }))
    /\ [][ (pc = "handling" /\ cur.ev.kind = "GossipsubMessage") => rt' = rt ]_vars
    /\ [][ Publishes(cmds') # {} /\ cmds' # cmds =>
              (pc = "handling" /\ cur.ev.kind \in { "ConnectionEstablished", "HandshakeTick" }) ]_vars

C20_Witness ==
    /\ Handled("GossipsubMessage")
    /\ cur.ev.message.topic = HANDSHAKE_TOPIC
    /\ decoded = "ok"
    /\ connected # {}
    /\ cmds = << >>

\* C21: a handled new-listen-address event has issued exactly one kademlia
\* bootstrap request and then one closest-peers lookup for an identifier
\* drawn by PeerId::random(), also when the bootstrap request returned an
\* error; and once run has started, the bootstrap requests issued so far
\* are the one of the initial setup plus one per re-bootstrap tick handled
\* plus one per new-listen-address event handled.
C21_ListenAddrRebootstraps ==
    /\ Handled("NewListenAddr") =>
          /\ pc = "select" /\ exitErr = ""
          /\ Len(cmds) = 2
          /\ cmds[1].op = "bootstrap"
          /\ cmds[2].op = "get_closest_peers"
          /\ cmds[2].key \in RandomPeerIds
    /\ (Running \/ exitErr = "panic") => nBootstrap = 1 + nBootTicks + nNewListen
    /\ ~(Running \/ exitErr = "panic") =>
          (nBootstrap = 0 /\ nBootTicks = 0 /\ nNewListen = 0)

C21_Witness ==
    /\ Handled("NewListenAddr")
    /\ ~cmds[1].ok
    /\ cmds[2].op = "get_closest_peers"
    /\ nNewListen = 2
    /\ nBootTicks = 1
    /\ nBootstrap = 4

\* C22: the identifier of a message is the same whatever node published it
\* under whatever sequence number, as long as the bytes are the same; and
\* two connection-established events handled one after the other whose
\* handshakes are stamped with the same second publish the very same bytes,
\* so that the second message has the identifier of the first.
C22_SameSecondSameId ==
    /\ Handled("ConnectionEstablished") =>
          (lastHellos # << >> /\ Last(lastHellos) = cmds[1].data)
    /\ (/\ Len(lastHellos) = 2
        /\ FromJson(lastHellos[1]).timestamp = FromJson(lastHellos[2]).timestamp)
       =>
       /\ lastHellos[1] = lastHellos[2]
       /\ \A src1 \in LocalPeerIds \cup Peers, src2 \in LocalPeerIds \cup Peers :
            \A seq1 \in SequenceNumbers, seq2 \in SequenceNumbers :
               MessageIdFn(Message(src1, seq1, HANDSHAKE_TOPIC, lastHellos[1]))
                 = MessageIdFn(Message(src2, seq2, HANDSHAKE_TOPIC, lastHellos[2]))

\* two connections were announced and handled in the same second, the
\* second to another peer than the first
C22_Witness ==
    /\ Handled("ConnectionEstablished")
    /\ netHandled = 2
    /\ connected = Peers
    /\ Len(lastHellos) = 2
    /\ lastHellos[2] = cmds[1].data
    /\ FromJson(lastHellos[1]).timestamp = 0
    /\ FromJson(lastHellos[2]).timestamp = 0

====
